---- MODULE Spec2Model ----
(***************************************************************************)
(* Model of banking_system.py: the BankAccount class (balance and          *)
(* transaction history) and the BankingSystem registry (accounts keyed by  *)
(* account number, pickled to a data file after every mutating call).      *)
(* Amounts are integers; the wall clock is counted in ticks finer than a   *)
(* second, and the account number keeps only the whole seconds.            *)
(*                                                                         *)
(*   accounts   BankingSystem.accounts: account number -> BankAccount      *)
(*   persisted  the content of the data file                               *)
(*   now        the wall clock, in ticks                                   *)
(*   last       the latest call: which operation, the error it raised or  *)
(*              "ok", the value it returned, whether it called _save_data  *)
(*   pc         where the caller of the BankingSystem is: "api" for a      *)
(*              caller that may call any operation at any time, "stats"    *)
(*              for one that reads the statistics of one account, a        *)
(*              record for the session of five calls (SpecTrace) and for   *)
(*              the menu loop of main (SpecMenu)                           *)
(***************************************************************************)
EXTENDS Integers, Sequences, FiniteSets, TLC

VARIABLES accounts, persisted, now, last, pc

vars == <<accounts, persisted, now, last, pc>>

\* ---- bounds of the model ------------------------------------------------
MaxClock == 2
MaxAmount == 1
MaxBalance == 2
MaxRecords == 3

\* ---- program constants --------------------------------------------------
\* strftime("%Y%m%d%H%M%S") keeps whole seconds; datetime.now() is finer.
TicksPerSecond == 2

None == "None"
NoOther == -1

Holders == {"", "alice"}
Types == {"", "savings"}
Passwords == {None, "pw"}
Amounts == -1..MaxAmount
AccountNumbers == 0..(MaxClock \div TicksPerSecond)
SaveOutcomes == {"ok", "failed"}

EmptyMap == [i \in {} |-> 0]

\* Python truthiness of a password / name / type value.
Truthy(v) == v # None /\ v # ""

\* ---- BankAccount --------------------------------------------------------

\* _generate_account_number: "ACC" + the clock formatted to whole seconds.
generate_account_number(t) == t \div TicksPerSecond

\* _record_transaction: append a record carrying the current balance.  The
\* record's date is only ever printed and is left out of the record.
record_transaction(self, transaction_type, amount, other_account, t) ==
    [self EXCEPT !.transaction_history =
        Append(@, [type |-> transaction_type,
                   amount |-> amount,
                   balance_after |-> self.balance,
                   other_account |-> other_account])]

\* BankAccount.__init__ without the record of the initial deposit.
Mut_BankAccount_init(account_holder_name, account_type, initial_balance, password, t) ==
    [account_holder_name |-> account_holder_name,
     account_number |-> generate_account_number(t),
     account_type |-> account_type,
     balance |-> initial_balance,
     transaction_history |-> << >>,
     password |-> password]

\* BankAccount.__init__
BankAccount_init(account_holder_name, account_type, initial_balance, password, t) ==
    LET fresh == [account_holder_name |-> account_holder_name,
                  account_number |-> generate_account_number(t),
                  account_type |-> account_type,
                  balance |-> initial_balance,
                  transaction_history |-> << >>,
                  password |-> password]
    IN  IF initial_balance > 0
        THEN record_transaction(fresh, "deposit", initial_balance, NoOther, t)
        ELSE fresh

\* BankAccount.deposit: the error raised, or "ok".
BankAccount_deposit_check(self, amount) ==
    IF amount <= 0 THEN "invalid_amount" ELSE "ok"

\* BankAccount.deposit that records the transaction before it adds the amount.
Mut_BankAccount_deposit(self, amount, t) ==
    [record_transaction(self, "deposit", amount, NoOther, t)
        EXCEPT !.balance = @ + amount]

\* BankAccount.deposit: the effect when no error is raised.
BankAccount_deposit(self, amount, t) ==
    record_transaction([self EXCEPT !.balance = @ + amount],
                       "deposit", amount, NoOther, t)

\* BankAccount.withdraw without the check of the balance.
Mut_BankAccount_withdraw_check(self, amount) ==
    IF amount <= 0 THEN "invalid_amount" ELSE "ok"

\* BankAccount.withdraw: the error raised, or "ok".
BankAccount_withdraw_check(self, amount) ==
    IF amount <= 0 THEN "invalid_amount"
    ELSE IF amount > self.balance THEN "insufficient_funds"
    ELSE "ok"

\* BankAccount.withdraw: the effect when no error is raised.
BankAccount_withdraw(self, amount, t) ==
    record_transaction([self EXCEPT !.balance = @ - amount],
                       "withdrawal", amount, NoOther, t)

\* BankAccount.transfer: the error raised, or "ok".
BankAccount_transfer_check(self, amount) ==
    IF amount <= 0 THEN "invalid_amount"
    ELSE IF amount > self.balance THEN "insufficient_funds"
    ELSE "ok"

\* BankAccount.transfer that records the transfer on the source only.
Mut_BankAccount_transfer(accts, src, dst, amount, t) ==
    LET a1 == [accts EXCEPT ![src].balance = @ - amount]
        a2 == [a1 EXCEPT ![src] =
                 record_transaction(@, "transfer_out", amount,
                                    a1[dst].account_number, t)]
        a3 == [a2 EXCEPT ![dst].balance = @ + amount]
    IN  a3

\* BankAccount.transfer that takes the amount from the source and records
\* both sides, but never adds the amount to the target.
Mut_BankAccount_transfer_lost(accts, src, dst, amount, t) ==
    LET a1 == [accts EXCEPT ![src].balance = @ - amount]
        a2 == [a1 EXCEPT ![src] =
                 record_transaction(@, "transfer_out", amount,
                                    a1[dst].account_number, t)]
        a4 == [a2 EXCEPT ![dst] =
                 record_transaction(@, "transfer_in", amount,
                                    a2[src].account_number, t)]
    IN  a4

\* BankAccount.transfer: the effect when no error is raised.  The two
\* accounts are objects of the registry accts; src and dst may name the
\* same object, so each statement acts on the result of the one before.
BankAccount_transfer(accts, src, dst, amount, t) ==
    LET a1 == [accts EXCEPT ![src].balance = @ - amount]
        a2 == [a1 EXCEPT ![src] =
                 record_transaction(@, "transfer_out", amount,
                                    a1[dst].account_number, t)]
        a3 == [a2 EXCEPT ![dst].balance = @ + amount]
        a4 == [a3 EXCEPT ![dst] =
                 record_transaction(@, "transfer_in", amount,
                                    a3[src].account_number, t)]
    IN  a4

\* ---- BankingSystem ------------------------------------------------------

\* _save_data that dumps an empty dict.
Mut_save_data(accts, io) ==
    IF io = "ok" THEN [kind |-> "data", data |-> EmptyMap]
    ELSE [kind |-> "unknown", data |-> EmptyMap]

\* _save_data: open(file, 'wb') then pickle.dump; either may raise.  After
\* a failed save the file holds its old content, nothing, or a truncated
\* pickle: which one is not tracked.
save_data(accts, io) ==
    IF io = "ok" THEN [kind |-> "data", data |-> accts]
    ELSE [kind |-> "unknown", data |-> EmptyMap]

\* get_account: the error raised, or "ok".
get_account(accts, account_number, password) ==
    IF account_number \notin DOMAIN accts THEN "not_found"
    ELSE IF Truthy(accts[account_number].password)
            /\ accts[account_number].password # password
         THEN "invalid_password"
    ELSE "ok"

\* A call that raises before it changed anything.
Raise(op, err) ==
    /\ UNCHANGED <<accounts, persisted, now>>
    /\ last' = [op |-> op, result |-> err, ret |-> NoOther, saved |-> FALSE]

RECURSIVE TotalRecords(_, _)
TotalRecords(accts, ids) ==
    IF ids = {} THEN 0
    ELSE LET id == CHOOSE i \in ids : TRUE
         IN  Len(accts[id].transaction_history) + TotalRecords(accts, ids \ {id})

\* The registries Spec explores: at most MaxRecords transaction records in
\* all, and no balance above MaxBalance.
WithinBounds(accts) ==
    /\ TotalRecords(accts, DOMAIN accts) <= MaxRecords
    /\ \A id \in DOMAIN accts : accts[id].balance <= MaxBalance

\* A call that changed the registry to accts, then called _save_data and,
\* when that did not raise, returned ret.
SaveAndReturn(op, accts, ret) ==
    \E io \in SaveOutcomes :
        /\ accounts' = accts
        /\ persisted' = save_data(accts, io)
        /\ UNCHANGED now
        /\ last' = [op |-> op,
                    result |-> IF io = "ok" THEN "ok" ELSE "io_error",
                    ret |-> IF io = "ok" THEN ret ELSE NoOther,
                    saved |-> TRUE]

\* dict item assignment self.accounts[key] = value
SetItem(accts, key, value) ==
    [k \in DOMAIN accts \cup {key} |-> IF k = key THEN value ELSE accts[k]]

\* BankingSystem.create_account
create_account(account_holder_name, account_type, initial_balance, password) ==
    LET account == BankAccount_init(account_holder_name, account_type,
                                    initial_balance, password, now)
    IN  IF ~Truthy(account_holder_name) \/ ~Truthy(account_type)
        THEN Raise("create_account", "invalid_input")
        ELSE IF initial_balance < 0
        THEN Raise("create_account", "negative_initial")
        ELSE SaveAndReturn("create_account",
                           SetItem(accounts, account.account_number, account),
                           account.account_number)

\* BankingSystem.deposit that deposits into every account of the registry.
Mut_deposit(account_number, amount) ==
    LET found == get_account(accounts, account_number, None)
        check == BankAccount_deposit_check(accounts[account_number], amount)
    IN  IF found # "ok" THEN Raise("deposit", found)
        ELSE IF check # "ok" THEN Raise("deposit", check)
        ELSE SaveAndReturn("deposit",
                           [k \in DOMAIN accounts |->
                               BankAccount_deposit(accounts[k], amount, now)],
                           NoOther)

\* BankingSystem.deposit
deposit(account_number, amount) ==
    LET found == get_account(accounts, account_number, None)
        check == BankAccount_deposit_check(accounts[account_number], amount)
    IN  IF found # "ok" THEN Raise("deposit", found)
        ELSE IF check # "ok" THEN Raise("deposit", check)
        ELSE SaveAndReturn("deposit",
                           [accounts EXCEPT ![account_number] =
                               BankAccount_deposit(@, amount, now)],
                           NoOther)

\* BankingSystem.withdraw
withdraw(account_number, amount) ==
    LET found == get_account(accounts, account_number, None)
        check == BankAccount_withdraw_check(accounts[account_number], amount)
    IN  IF found # "ok" THEN Raise("withdraw", found)
        ELSE IF check # "ok" THEN Raise("withdraw", check)
        ELSE SaveAndReturn("withdraw",
                           [accounts EXCEPT ![account_number] =
                               BankAccount_withdraw(@, amount, now)],
                           NoOther)

\* BankingSystem.transfer that looks the source up through get_account.
Mut_transfer(from_account_number, to_account_number, amount) ==
    LET found == get_account(accounts, from_account_number, None)
        check == BankAccount_transfer_check(accounts[from_account_number], amount)
    IN  IF from_account_number \notin DOMAIN accounts
        THEN Raise("transfer", "source_not_found")
        ELSE IF to_account_number \notin DOMAIN accounts
        THEN Raise("transfer", "target_not_found")
        ELSE IF found # "ok" THEN Raise("transfer", found)
        ELSE IF check # "ok" THEN Raise("transfer", check)
        ELSE SaveAndReturn("transfer",
                           BankAccount_transfer(accounts, from_account_number,
                                                to_account_number, amount, now),
                           NoOther)

\* BankingSystem.transfer
transfer(from_account_number, to_account_number, amount) ==
    LET check == BankAccount_transfer_check(accounts[from_account_number], amount)
    IN  IF from_account_number \notin DOMAIN accounts
        THEN Raise("transfer", "source_not_found")
        ELSE IF to_account_number \notin DOMAIN accounts
        THEN Raise("transfer", "target_not_found")
        ELSE IF check # "ok" THEN Raise("transfer", check)
        ELSE SaveAndReturn("transfer",
                           BankAccount_transfer(accounts, from_account_number,
                                                to_account_number, amount, now),
                           NoOther)

\* The wall clock advances between calls.
Tick ==
    /\ now < MaxClock
    /\ now' = now + 1
    /\ UNCHANGED <<accounts, persisted>>
    /\ last' = [op |-> "none", result |-> "none", ret |-> NoOther, saved |-> FALSE]

\* BankingSystem.__init__ with no data file: _load_data returns {}.
Init ==
    /\ accounts = EmptyMap
    /\ persisted = [kind |-> "absent", data |-> EmptyMap]
    /\ now = 0
    /\ last = [op |-> "none", result |-> "none", ret |-> NoOther, saved |-> FALSE]
    /\ pc = "api"

\* Any call at any time, within the bounds.
Next ==
    \/ Tick /\ UNCHANGED pc
    \/ \E h \in Holders, ty \in Types, ib \in Amounts, pw \in Passwords :
          create_account(h, ty, ib, pw) /\ WithinBounds(accounts') /\ UNCHANGED pc
    \/ \E id \in AccountNumbers, amt \in Amounts :
          deposit(id, amt) /\ WithinBounds(accounts') /\ UNCHANGED pc
    \/ \E id \in AccountNumbers, amt \in Amounts :
          withdraw(id, amt) /\ WithinBounds(accounts') /\ UNCHANGED pc
    \/ \E src \in AccountNumbers, dst \in AccountNumbers, amt \in Amounts :
          transfer(src, dst, amt) /\ WithinBounds(accounts') /\ UNCHANGED pc

Spec == Init /\ [][Next]_vars

\* ---- the calls with every kind of argument -------------------------------

TypesAll == {"", "savings", "current", "gold"}
PasswordsAll == {None, "", "pw"}
Credentials == {None, "", "pw", "bad"}

\* BankingSystem.get_account called by the user of the class: it returns
\* the account object, named here by its key.
get_account_call(account_number, password) ==
    /\ UNCHANGED <<accounts, persisted, now>>
    /\ last' = [op |-> "get_account",
                result |-> get_account(accounts, account_number, password),
                ret |-> IF get_account(accounts, account_number, password) = "ok"
                        THEN account_number ELSE NoOther,
                saved |-> FALSE]

\* Accounts are opened with every kind of name, type, balance and password
\* and looked up with every kind of password.
NextApi ==
    \/ Tick /\ UNCHANGED pc
    \/ \E h \in Holders, ty \in TypesAll, ib \in Amounts, pw \in PasswordsAll :
          create_account(h, ty, ib, pw) /\ WithinBounds(accounts') /\ UNCHANGED pc
    \/ \E id \in AccountNumbers, pw \in Credentials :
          get_account_call(id, pw) /\ UNCHANGED pc

SpecApi == Init /\ [][NextApi]_vars

\* ---- the statistics of one account -----------------------------------------

MaxLog == 3
StatKinds == {"deposit", "withdrawal", "transfer_in", "transfer_out"}
StatAmounts == {30, 50, 100}
Peer == 1

\* np.sum of a list of amounts
RECURSIVE np_sum(_)
np_sum(list) ==
    IF list = << >> THEN 0 ELSE list[1] + np_sum(Tail(list))

\* np.mean of a non-empty list of amounts: the quotient sum / length, kept
\* as the fraction num / den.
np_mean(list) == [num |-> np_sum(list), den |-> Len(list)]

\* The number 0 where a mean is expected.
Zero == [num |-> 0, den |-> 1]

\* [t["amount"] for t in history if t["type"] in types]
AmountsOfTypes(history, types) ==
    LET chosen == SelectSeq(history, LAMBDA t : t.type \in types)
    IN  [i \in 1..Len(chosen) |-> chosen[i].amount]

\* BankAccount.get_summary_statistics that leaves transfer_in out of the
\* deposits.
Mut_get_summary_statistics(self) ==
    IF self.transaction_history = << >>
    THEN [total_deposits |-> 0, total_withdrawals |-> 0,
          average_deposit |-> Zero, average_withdrawal |-> Zero,
          total_transactions |-> 0]
    ELSE LET deposits == AmountsOfTypes(self.transaction_history, {"deposit"})
             withdrawals == AmountsOfTypes(self.transaction_history,
                                           {"withdrawal", "transfer_out"})
         IN  [total_deposits |-> IF deposits # << >> THEN np_sum(deposits) ELSE 0,
              total_withdrawals |->
                  IF withdrawals # << >> THEN np_sum(withdrawals) ELSE 0,
              average_deposit |->
                  IF deposits # << >> THEN np_mean(deposits) ELSE Zero,
              average_withdrawal |->
                  IF withdrawals # << >> THEN np_mean(withdrawals) ELSE Zero,
              total_transactions |-> Len(self.transaction_history)]

\* BankAccount.get_summary_statistics
get_summary_statistics(self) ==
    IF self.transaction_history = << >>
    THEN [total_deposits |-> 0, total_withdrawals |-> 0,
          average_deposit |-> Zero, average_withdrawal |-> Zero,
          total_transactions |-> 0]
    ELSE LET deposits == AmountsOfTypes(self.transaction_history,
                                        {"deposit", "transfer_in"})
             withdrawals == AmountsOfTypes(self.transaction_history,
                                           {"withdrawal", "transfer_out"})
         IN  [total_deposits |-> IF deposits # << >> THEN np_sum(deposits) ELSE 0,
              total_withdrawals |->
                  IF withdrawals # << >> THEN np_sum(withdrawals) ELSE 0,
              average_deposit |->
                  IF deposits # << >> THEN np_mean(deposits) ELSE Zero,
              average_withdrawal |->
                  IF withdrawals # << >> THEN np_mean(withdrawals) ELSE Zero,
              total_transactions |-> Len(self.transaction_history)]

\* One transaction on a BankAccount object: the error raised, or "ok".
Transact_check(self, e) ==
    CASE e.type = "deposit" -> BankAccount_deposit_check(self, e.amount)
      [] e.type = "withdrawal" -> BankAccount_withdraw_check(self, e.amount)
      [] e.type = "transfer_out" -> BankAccount_transfer_check(self, e.amount)
      [] e.type = "transfer_in" -> "ok"

\* One transaction on a BankAccount object: its effect on that object.  A
\* transfer is one with the account Peer on the other side.
Transact(self, e) ==
    CASE e.type = "deposit" -> BankAccount_deposit(self, e.amount, 0)
      [] e.type = "withdrawal" -> BankAccount_withdraw(self, e.amount, 0)
      [] e.type = "transfer_out" ->
            record_transaction([self EXCEPT !.balance = @ - e.amount],
                               "transfer_out", e.amount, Peer, 0)
      [] e.type = "transfer_in" ->
            record_transaction([self EXCEPT !.balance = @ + e.amount],
                               "transfer_in", e.amount, Peer, 0)

\* The BankAccount object after the first n transactions of script, and
\* whether one of them raised.
RECURSIVE Replay(_, _)
Replay(script, n) ==
    IF n = 0
    THEN [raised |-> FALSE,
          self |-> BankAccount_init("alice", "savings", 0, None, 0)]
    ELSE LET before == Replay(script, n - 1)
         IN  IF before.raised \/ Transact_check(before.self, script[n]) # "ok"
             THEN [raised |-> TRUE, self |-> before.self]
             ELSE [raised |-> FALSE, self |-> Transact(before.self, script[n])]

Scripts ==
    UNION {[1..n -> [type : StatKinds, amount : StatAmounts]] : n \in 0..MaxLog}

\* A BankAccount object, kept under its number, with a history of at most
\* MaxLog transactions.
InitStats ==
    /\ \E script \in Scripts :
          /\ ~Replay(script, Len(script)).raised
          /\ accounts = SetItem(EmptyMap, 0, Replay(script, Len(script)).self)
    /\ persisted = [kind |-> "absent", data |-> EmptyMap]
    /\ now = 0
    /\ last = [op |-> "none", result |-> "none", ret |-> NoOther, saved |-> FALSE]
    /\ pc = "stats"

\* account.get_summary_statistics() returns.
get_summary_statistics_call ==
    /\ UNCHANGED <<accounts, persisted, now, pc>>
    /\ last' = [op |-> "get_summary_statistics", result |-> "ok",
                ret |-> get_summary_statistics(accounts[0]), saved |-> FALSE]

NextStats == get_summary_statistics_call

SpecStats == InitStats /\ [][NextStats]_vars

\* ---- a session of five calls ------------------------------------------------

TraceHolders == {"alice", "bob"}

\* The caller's position after a call: on when the call returned, stopped
\* with the error when it raised.
After(next) ==
    IF last'.result = "ok"
    THEN [pc EXCEPT !.at = next]
    ELSE [pc EXCEPT !.at = "aborted", !.error = last'.result]

\* x = create_account(.., 1000)
trace_create_x ==
    /\ pc.at = "create_x"
    /\ \E h \in TraceHolders : create_account(h, "savings", 1000, None)
    /\ pc' = [After("deposit") EXCEPT !.x = last'.ret]

\* deposit(x, 500)
trace_deposit ==
    /\ pc.at = "deposit"
    /\ deposit(pc.x, 500)
    /\ pc' = After("withdraw")

\* withdraw(x, 200)
trace_withdraw ==
    /\ pc.at = "withdraw"
    /\ withdraw(pc.x, 200)
    /\ pc' = After("create_y")

\* y = create_account(.., 0)
trace_create_y ==
    /\ pc.at = "create_y"
    /\ \E h \in TraceHolders : create_account(h, "savings", 0, None)
    /\ pc' = [After("transfer") EXCEPT !.y = last'.ret]

\* transfer(x, y, 300)
trace_transfer ==
    /\ pc.at = "transfer"
    /\ transfer(pc.x, pc.y, 300)
    /\ pc' = After("done")

\* An empty registry and a caller about to make the five calls.
InitTrace ==
    /\ accounts = EmptyMap
    /\ persisted = [kind |-> "absent", data |-> EmptyMap]
    /\ now = 0
    /\ last = [op |-> "none", result |-> "none", ret |-> NoOther, saved |-> FALSE]
    /\ pc = [at |-> "create_x", x |-> NoOther, y |-> NoOther, error |-> "none"]

\* The five calls in their order, any time passing between them.
NextTrace ==
    \/ Tick /\ UNCHANGED pc
    \/ trace_create_x
    \/ trace_deposit
    \/ trace_withdraw
    \/ trace_create_y
    \/ trace_transfer

SpecTrace == InitTrace /\ [][NextTrace]_vars

\* ---- main: the menu loop ---------------------------------------------------

Choices == {"2", "3", "4", "5", "6", "7"}
MenuTypes == {"savings", "gold"}
Confirmations == {"pw", "bad"}

AtMenu == [at |-> "menu", choice |-> "none", account_number |-> NoOther,
           prompted |-> FALSE]

\* An error message is printed and the loop continues.
PrintError(op, err) ==
    /\ UNCHANGED <<accounts, persisted, now>>
    /\ last' = [op |-> op, result |-> err, ret |-> NoOther, saved |-> FALSE]
    /\ pc' = AtMenu

\* choice '1': the answers are read, checked, and the account is created;
\* every exception is caught and printed.
menu_open_account ==
    /\ pc.at = "menu"
    /\ \E name \in Holders, account_type \in MenuTypes, initial_balance \in Amounts,
          set_password \in {"y", "n"}, confirm_password \in Confirmations :
          IF account_type \notin {"savings", "current"}
          THEN PrintError("open_account", "invalid_type")
          ELSE IF set_password = "y" /\ "pw" # confirm_password
          THEN PrintError("open_account", "password_mismatch")
          ELSE /\ create_account(name, account_type, initial_balance,
                                 IF set_password = "y" THEN "pw" ELSE None)
               /\ pc' = AtMenu

\* choice '2' to '7' and the account number are read.
menu_choose ==
    /\ pc.at = "menu"
    /\ \E choice \in Choices, account_number \in AccountNumbers :
          pc' = [at |-> "entered", choice |-> choice,
                 account_number |-> account_number, prompted |-> FALSE]
    /\ UNCHANGED <<accounts, persisted, now, last>>

\* The account is looked up without a password; when that returned an
\* account with a password, the password is asked for and the account is
\* looked up again with the answer.  A ValueError is printed and the loop
\* continues.
menu_lookup(entered) ==
    /\ pc.at = "entered"
    /\ LET first == get_account(accounts, pc.account_number, None)
           prompt == /\ first = "ok"
                     /\ Truthy(accounts[pc.account_number].password)
           found == IF prompt
                    THEN get_account(accounts, pc.account_number, entered)
                    ELSE first
       IN  /\ pc' = [pc EXCEPT !.at = IF found = "ok" THEN "selected" ELSE "menu",
                               !.prompted = prompt]
           /\ last' = [op |-> "get_account", result |-> found,
                       ret |-> IF found = "ok" THEN pc.account_number ELSE NoOther,
                       saved |-> FALSE]
    /\ UNCHANGED <<accounts, persisted, now>>

\* A call of the menu has returned or raised: a ValueError is printed and
\* the loop continues, any other exception ends the program.
AfterCall ==
    IF last'.result = "io_error"
    THEN [pc EXCEPT !.at = "crashed"]
    ELSE [pc EXCEPT !.at = "menu"]

\* get_account_details, get_transaction_history and get_summary_statistics
\* of BankingSystem: the account is looked up without a password and read.
Query(op) ==
    /\ UNCHANGED <<accounts, persisted, now>>
    /\ last' = [op |-> op,
                result |-> get_account(accounts, pc.account_number, None),
                ret |-> NoOther, saved |-> FALSE]
    /\ pc' = AfterCall

\* choice '2'
menu_view_details ==
    /\ pc.at = "selected" /\ pc.choice = "2"
    /\ Query("get_account_details")

\* choice '3'
menu_deposit ==
    /\ pc.at = "selected" /\ pc.choice = "3"
    /\ \E amount \in Amounts : deposit(pc.account_number, amount)
    /\ WithinBounds(accounts')
    /\ pc' = AfterCall

\* choice '4'
menu_withdraw ==
    /\ pc.at = "selected" /\ pc.choice = "4"
    /\ \E amount \in Amounts : withdraw(pc.account_number, amount)
    /\ WithinBounds(accounts')
    /\ pc' = AfterCall

\* choice '5'
menu_transfer ==
    /\ pc.at = "selected" /\ pc.choice = "5"
    /\ \E target_account \in AccountNumbers, amount \in Amounts :
          transfer(pc.account_number, target_account, amount)
    /\ WithinBounds(accounts')
    /\ pc' = AfterCall

\* choice '6'
menu_view_history ==
    /\ pc.at = "selected" /\ pc.choice = "6"
    /\ Query("get_transaction_history")

\* choice '7'
menu_view_statistics ==
    /\ pc.at = "selected" /\ pc.choice = "7"
    /\ Query("get_summary_statistics")

\* choice '8'
menu_exit ==
    /\ pc.at = "menu"
    /\ pc' = [pc EXCEPT !.at = "exited"]
    /\ UNCHANGED <<accounts, persisted, now, last>>

\* main() starts with no data file.
InitMenu ==
    /\ accounts = EmptyMap
    /\ persisted = [kind |-> "absent", data |-> EmptyMap]
    /\ now = 0
    /\ last = [op |-> "none", result |-> "none", ret |-> NoOther, saved |-> FALSE]
    /\ pc = AtMenu

NextMenu ==
    \/ Tick /\ UNCHANGED pc
    \/ menu_open_account /\ WithinBounds(accounts')
    \/ menu_choose
    \/ \E entered \in Credentials : menu_lookup(entered)
    \/ menu_view_details
    \/ menu_deposit
    \/ menu_withdraw
    \/ menu_transfer
    \/ menu_view_history
    \/ menu_view_statistics
    \/ menu_exit

SpecMenu == InitMenu /\ [][NextMenu]_vars

\* ---- helpers of the properties -------------------------------------------

SignedAmount(rec) ==
    IF rec.type \in {"deposit", "transfer_in"} THEN rec.amount ELSE 0 - rec.amount

RECURSIVE SignedSum(_)
SignedSum(log) ==
    IF log = << >> THEN 0
    ELSE SignedSum(SubSeq(log, 1, Len(log) - 1)) + SignedAmount(log[Len(log)])

History(accts, id) == accts[id].transaction_history

LastRecord(accts, id) == History(accts, id)[Len(History(accts, id))]

Grew(id) == Len(History(accounts', id)) - Len(History(accounts, id))

\* The validation errors: the call was rejected.
Rejections ==
    {"invalid_input", "negative_initial", "not_found", "invalid_password",
     "invalid_amount", "insufficient_funds", "source_not_found",
     "target_not_found"}

\* ---- C1 -------------------------------------------------------------------
\* C1: in every reachable state each account's balance is the sum of the
\* signed amounts of its transaction history (+ deposit and transfer_in,
\* - withdrawal and transfer_out), a positive initial balance being the first
\* deposit record.
C1_BalanceIsSumOfHistory ==
    \A id \in DOMAIN accounts :
        accounts[id].balance = SignedSum(History(accounts, id))

\* An account that was opened with money and then paid some of it out.
C1_Witness ==
    \E id \in DOMAIN accounts :
        /\ Len(History(accounts, id)) >= 2
        /\ History(accounts, id)[1].type = "deposit"
        /\ LastRecord(accounts, id).type \in {"withdrawal", "transfer_out"}

\* ---- C2 -------------------------------------------------------------------
\* C2 as claimed: every transfer between existing accounts changes the length
\* of the source's and of the target's history by exactly +1 each (a
\* transfer_out and a transfer_in record of the same amount) or by 0 each.
C2_Original ==
    [][last'.op = "transfer" =>
       \A src \in DOMAIN accounts, dst \in DOMAIN accounts, amt \in Amounts :
          transfer(src, dst, amt)
          => \/ Grew(src) = 0 /\ Grew(dst) = 0
             \/ /\ Grew(src) = 1
                /\ Grew(dst) = 1
                /\ LastRecord(accounts', src).type = "transfer_out"
                /\ LastRecord(accounts', dst).type = "transfer_in"
                /\ LastRecord(accounts', src).amount = amt
                /\ LastRecord(accounts', dst).amount = amt]_vars

\* C2 amended: a transfer between two different existing accounts changes
\* both histories by exactly +1 (transfer_out on the source, transfer_in on
\* the target, same amount) or both by 0; a transfer from an account to
\* itself changes its one history by exactly +2 (the transfer_out record
\* followed by the transfer_in record, same amount) or by 0.
C2_TransferRecords ==
    [][last'.op = "transfer" =>
       \A src \in DOMAIN accounts, dst \in DOMAIN accounts, amt \in Amounts :
          transfer(src, dst, amt)
          => \/ Grew(src) = 0 /\ Grew(dst) = 0
             \/ /\ src # dst
                /\ Grew(src) = 1
                /\ Grew(dst) = 1
                /\ LastRecord(accounts', src).type = "transfer_out"
                /\ LastRecord(accounts', dst).type = "transfer_in"
                /\ LastRecord(accounts', src).amount = amt
                /\ LastRecord(accounts', dst).amount = amt
             \/ /\ src = dst
                /\ Grew(src) = 2
                /\ History(accounts', src)[Len(History(accounts', src)) - 1].type
                     = "transfer_out"
                /\ History(accounts', src)[Len(History(accounts', src)) - 1].amount
                     = amt
                /\ LastRecord(accounts', src).type = "transfer_in"
                /\ LastRecord(accounts', src).amount = amt]_vars

\* A transfer between two different accounts has just returned.
C2_Witness ==
    \E src \in DOMAIN accounts, dst \in DOMAIN accounts :
        /\ src # dst
        /\ last.result = "ok"
        /\ Len(History(accounts, src)) >= 1
        /\ Len(History(accounts, dst)) >= 1
        /\ LastRecord(accounts, src).type = "transfer_out"
        /\ LastRecord(accounts, src).other_account = dst
        /\ LastRecord(accounts, dst).type = "transfer_in"
        /\ LastRecord(accounts, dst).other_account = src

\* ---- C3 -------------------------------------------------------------------
\* C3: in every reachable state the balance of every account is >= 0.
C3_BalanceNonNegative ==
    \A id \in DOMAIN accounts : accounts[id].balance >= 0

\* A withdrawal or transfer has just taken an account down to exactly zero.
C3_Witness ==
    \E id \in DOMAIN accounts :
        /\ last.result = "ok"
        /\ Len(History(accounts, id)) >= 2
        /\ LastRecord(accounts, id).type \in {"withdrawal", "transfer_out"}
        /\ accounts[id].balance = 0

\* ---- C4 -------------------------------------------------------------------
\* C4: a withdraw or transfer on existing account(s) whose amount exceeds the
\* (source) account's balance raises the insufficient-funds error, leaves
\* the registry unchanged and performs no save.
C4_InsufficientFundsRejected ==
    [][/\ last'.op = "withdraw" =>
          \A id \in DOMAIN accounts, amt \in Amounts :
            (amt > accounts[id].balance /\ withdraw(id, amt))
            => /\ last'.result = "insufficient_funds"
               /\ ~last'.saved
               /\ UNCHANGED <<accounts, persisted>>
       /\ last'.op = "transfer" =>
          \A src \in DOMAIN accounts, dst \in DOMAIN accounts, amt \in Amounts :
            (amt > accounts[src].balance /\ transfer(src, dst, amt))
            => /\ last'.result = "insufficient_funds"
               /\ ~last'.saved
               /\ UNCHANGED <<accounts, persisted>>]_vars

\* ---- C5 -------------------------------------------------------------------
\* C5: a deposit, withdraw or transfer on existing account(s) with
\* amount <= 0 raises the invalid-amount error and leaves the registry
\* unchanged; every record of every history has amount > 0.
C5_NonPositiveAmountRejected ==
    [][/\ last'.op \in {"deposit", "withdraw"} =>
          \A id \in DOMAIN accounts, amt \in Amounts :
            (amt <= 0 /\ (deposit(id, amt) \/ withdraw(id, amt)))
            => /\ last'.result = "invalid_amount"
               /\ UNCHANGED <<accounts, persisted>>
       /\ last'.op = "transfer" =>
          \A src \in DOMAIN accounts, dst \in DOMAIN accounts, amt \in Amounts :
            (amt <= 0 /\ transfer(src, dst, amt))
            => /\ last'.result = "invalid_amount"
               /\ UNCHANGED <<accounts, persisted>>
       /\ \A id \in DOMAIN accounts' :
            \A i \in 1..Len(History(accounts', id)) :
                History(accounts', id)[i].amount > 0]_vars

\* ---- C6 -------------------------------------------------------------------
\* C6: the id a successful create_account returns is not an id already in
\* the registry, also when no second has passed since the last creation.
C6_FreshAccountNumber ==
    [][(last'.op = "create_account" /\ last'.result = "ok")
          => last'.ret \notin DOMAIN accounts]_vars

\* ---- C7 -------------------------------------------------------------------
\* C7: a successful create_account adds exactly one account and leaves every
\* account that was there as it was; the number of accounts never decreases.
C7_CreateAddsOneAccount ==
    [][/\ (last'.op = "create_account" /\ last'.result = "ok")
            => /\ Cardinality(DOMAIN accounts') = Cardinality(DOMAIN accounts) + 1
               /\ \A id \in DOMAIN accounts :
                    id \in DOMAIN accounts' /\ accounts'[id] = accounts[id]
       /\ Cardinality(DOMAIN accounts') >= Cardinality(DOMAIN accounts)]_vars

\* ---- C8 -------------------------------------------------------------------
\* C8: a call that reports a failure, a failed save included, leaves the
\* registry in memory as it was before the call.
C8_FailureLeavesRegistry ==
    [][(last'.op # "none" /\ last'.result # "ok") => accounts' = accounts]_vars

\* ---- C9 -------------------------------------------------------------------
\* C9: when a call returns success, _save_data has been called in it and the
\* persisted mapping is the registry in memory; a rejected call calls no
\* _save_data and leaves the persisted mapping alone.
C9_SavedBeforeSuccess ==
    [][/\ last'.result = "ok"
          => last'.saved /\ persisted' = [kind |-> "data", data |-> accounts']
       /\ last'.result \in Rejections
          => ~last'.saved /\ persisted' = persisted]_vars

\* A deposit, withdrawal or transfer has returned success and the file holds
\* the registry with the new record.
C9_Witness ==
    /\ last.result = "ok"
    /\ last.saved
    /\ persisted = [kind |-> "data", data |-> accounts]
    /\ \E id \in DOMAIN accounts : Len(History(accounts, id)) >= 2

\* ---- C10 ------------------------------------------------------------------
\* C10: deposit with amount > 0 and withdraw with 0 < amount <= balance on an
\* existing account are not refused, whether or not the account has a
\* password: the balance is updated, the record appended and the registry
\* saved.
C10_NoCredentialOnDepositWithdraw ==
    [][\A id \in DOMAIN accounts, amt \in Amounts :
          /\ (last'.op = "deposit" /\ amt > 0 /\ deposit(id, amt))
             => /\ last'.result \in {"ok", "io_error"}
                /\ last'.saved
                /\ accounts'[id].balance = accounts[id].balance + amt
                /\ Grew(id) = 1
          /\ (/\ last'.op = "withdraw"
              /\ amt > 0
              /\ amt <= accounts[id].balance
              /\ withdraw(id, amt))
             => /\ last'.result \in {"ok", "io_error"}
                /\ last'.saved
                /\ accounts'[id].balance = accounts[id].balance - amt
                /\ Grew(id) = 1]_vars

\* ---- C11 ------------------------------------------------------------------
\* C11: get_account on an unknown id fails with not-found; on an account
\* whose password was set (is not None) it fails with the invalid-password
\* error when the supplied password differs from the stored one and returns
\* the account when it is the same; on an account without a password it
\* returns the account whatever is supplied; it never changes the registry.
C11_GetAccount ==
    [][last'.op = "get_account" =>
       \A id \in AccountNumbers, pw \in Credentials :
          get_account_call(id, pw)
          => /\ UNCHANGED <<accounts, persisted>>
             /\ id \notin DOMAIN accounts => last'.result = "not_found"
             /\ (/\ id \in DOMAIN accounts
                 /\ accounts[id].password # None
                 /\ accounts[id].password # pw)
                => last'.result = "invalid_password"
             /\ (/\ id \in DOMAIN accounts
                 /\ accounts[id].password # None
                 /\ accounts[id].password = pw)
                => last'.result = "ok" /\ last'.ret = id
             /\ (id \in DOMAIN accounts /\ accounts[id].password = None)
                => last'.result = "ok" /\ last'.ret = id]_vars

\* ---- C12 ------------------------------------------------------------------
IsPrefix(s, t) ==
    /\ Len(s) <= Len(t)
    /\ \A i \in 1..Len(s) : s[i] = t[i]

\* C12: the history kept under an account number only grows at its end: over
\* every step, create_account included, the account number stays in the
\* registry and its old history is a prefix of its new history.
C12_HistoryAppendOnly ==
    [][\A id \in DOMAIN accounts :
          /\ id \in DOMAIN accounts'
          /\ IsPrefix(History(accounts, id), History(accounts', id))]_vars

\* ---- C13 ------------------------------------------------------------------
\* C13: create_account fails with an invalid-input error and adds no account
\* when the holder name is empty, when the account type is not savings or
\* current, or when the initial balance is negative; so every account of the
\* registry has a non-empty holder name and a type that is savings or current.
C13_CreateValidatesInput ==
    [][last'.op = "create_account" =>
       \A h \in Holders, ty \in TypesAll, ib \in Amounts, pw \in PasswordsAll :
          create_account(h, ty, ib, pw)
          => /\ (h = "" \/ ty \notin {"savings", "current"} \/ ib < 0)
                => /\ last'.result \in {"invalid_input", "negative_initial"}
                   /\ accounts' = accounts
             /\ \A id \in DOMAIN accounts' :
                   /\ accounts'[id].account_holder_name # ""
                   /\ accounts'[id].account_type \in {"savings", "current"}]_vars

\* ---- C14 ------------------------------------------------------------------
\* C14: from an empty registry, create X with 1000, deposit 500 into X,
\* withdraw 200 from X, create Y with 0, transfer 300 from X to Y: however
\* little time passes between the two creations, no call is rejected, and
\* after the five calls X's balance is 1000, Y's balance is 300 and X's
\* history is exactly the initial deposit, the deposit, the withdrawal and
\* the transfer_out.
C14_EndToEnd ==
    /\ pc.at = "aborted" => pc.error \notin Rejections
    /\ pc.at = "done"
       => /\ accounts[pc.x].balance = 1000
          /\ accounts[pc.y].balance = 300
          /\ [i \in 1..Len(History(accounts, pc.x)) |->
                <<History(accounts, pc.x)[i].type, History(accounts, pc.x)[i].amount>>]
               = << <<"deposit", 1000>>, <<"deposit", 500>>,
                    <<"withdrawal", 200>>, <<"transfer_out", 300>> >>

\* ---- C15 ------------------------------------------------------------------
\* The sum and the number of the amounts of the records of log whose type
\* is one of types, counted record by record from the end of the log.
RECURSIVE SumWhere(_, _)
SumWhere(log, types) ==
    IF log = << >> THEN 0
    ELSE SumWhere(SubSeq(log, 1, Len(log) - 1), types)
         + (IF log[Len(log)].type \in types THEN log[Len(log)].amount ELSE 0)

RECURSIVE CountWhere(_, _)
CountWhere(log, types) ==
    IF log = << >> THEN 0
    ELSE CountWhere(SubSeq(log, 1, Len(log) - 1), types)
         + (IF log[Len(log)].type \in types THEN 1 ELSE 0)

\* The fraction q is the total divided by the count, or 0 when the count is 0.
IsAverage(q, total, count) ==
    /\ q.den > 0
    /\ IF count = 0 THEN q.num = 0 ELSE q.num * count = total * q.den

\* C15: get_summary_statistics changes no state and its result is determined
\* by the history alone: total_deposits is the sum of the amounts of the
\* deposit and transfer_in records, total_withdrawals the sum of the amounts
\* of the withdrawal and transfer_out records, each average is that total
\* divided by the number of those records (0 when there are none), and
\* total_transactions is the length of the history; for the history
\* deposit 100, withdrawal 30, deposit 50 the result is 150, 30, 75, 30, 3.
C15_Statistics ==
    [][last'.op = "get_summary_statistics" =>
       LET log == History(accounts, 0)
           stats == last'.ret
           ins == {"deposit", "transfer_in"}
           outs == {"withdrawal", "transfer_out"}
       IN  /\ UNCHANGED <<accounts, persisted, now>>
           /\ stats = get_summary_statistics(
                         [transaction_history |-> log])
           /\ stats.total_deposits = SumWhere(log, ins)
           /\ stats.total_withdrawals = SumWhere(log, outs)
           /\ IsAverage(stats.average_deposit,
                        SumWhere(log, ins), CountWhere(log, ins))
           /\ IsAverage(stats.average_withdrawal,
                        SumWhere(log, outs), CountWhere(log, outs))
           /\ stats.total_transactions = Len(log)
           /\ [i \in 1..Len(log) |-> <<log[i].type, log[i].amount>>]
                = << <<"deposit", 100>>, <<"withdrawal", 30>>, <<"deposit", 50>> >>
              => /\ stats.total_deposits = 150
                 /\ stats.total_withdrawals = 30
                 /\ stats.average_deposit.num = 75 * stats.average_deposit.den
                 /\ stats.average_withdrawal.num = 30 * stats.average_withdrawal.den
                 /\ stats.total_transactions = 3]_vars

\* The statistics of the history deposit 100, withdrawal 30, deposit 50
\* have been returned.
C15_Witness ==
    /\ last.op = "get_summary_statistics"
    /\ Len(History(accounts, 0)) = 3
    /\ [i \in 1..3 |-> <<History(accounts, 0)[i].type, History(accounts, 0)[i].amount>>]
         = << <<"deposit", 100>>, <<"withdrawal", 30>>, <<"deposit", 50>> >>
    /\ last.ret.total_deposits = 150
    /\ accounts[0].balance = 120

\* ---- C16 ------------------------------------------------------------------
\* C16: in every reachable state the balance_after fields of an account's
\* history form a chain: the first record's balance_after is its signed
\* amount applied to the balance of before it (zero), every later record's
\* balance_after is the balance_after of the record before it plus its own
\* signed amount, and the last record's balance_after is the current balance.
\* The two records of a transfer from an account to itself are no exception.
C16_BalanceAfterChain ==
    \A id \in DOMAIN accounts :
        LET log == History(accounts, id)
        IN  Len(log) >= 1
            => /\ log[1].balance_after = SignedAmount(log[1])
               /\ \A i \in 2..Len(log) :
                     log[i].balance_after
                       = log[i - 1].balance_after + SignedAmount(log[i])
               /\ log[Len(log)].balance_after = accounts[id].balance

\* An account that was opened with money and then transferred to itself.
C16_Witness ==
    \E id \in DOMAIN accounts :
        LET log == History(accounts, id)
        IN  /\ Len(log) = 3
            /\ log[1].type = "deposit"
            /\ log[2].type = "transfer_out"
            /\ log[2].other_account = id
            /\ log[3].type = "transfer_in"
            /\ log[3].other_account = id

\* ---- C17 ------------------------------------------------------------------
RECURSIVE SumOfBalances(_, _)
SumOfBalances(accts, ids) ==
    IF ids = {} THEN 0
    ELSE LET id == CHOOSE i \in ids : TRUE
         IN  accts[id].balance + SumOfBalances(accts, ids \ {id})

\* C17: every call of transfer, accepted or rejected, between two accounts
\* or from an account to itself, leaves the sum of the balances of all
\* accounts unchanged; a transfer between two different accounts that
\* returns takes exactly the amount off the source's balance and adds
\* exactly the amount to the target's balance.
C17_TransferConservesMoney ==
    [][last'.op = "transfer" =>
       \A src \in AccountNumbers, dst \in AccountNumbers, amt \in Amounts :
          transfer(src, dst, amt)
          => /\ DOMAIN accounts' = DOMAIN accounts
             /\ SumOfBalances(accounts', DOMAIN accounts')
                  = SumOfBalances(accounts, DOMAIN accounts)
             /\ (last'.result = "ok" /\ src # dst)
                => /\ accounts'[src].balance = accounts[src].balance - amt
                   /\ accounts'[dst].balance = accounts[dst].balance + amt]_vars

\* A transfer that emptied the source into another account has returned.
C17_Witness ==
    \E src \in DOMAIN accounts, dst \in DOMAIN accounts :
        /\ src # dst
        /\ last.op = "transfer"
        /\ last.result = "ok"
        /\ accounts[src].balance = 0
        /\ accounts[dst].balance >= 1
        /\ Len(History(accounts, src)) >= 2
        /\ LastRecord(accounts, src).type = "transfer_out"
        /\ LastRecord(accounts, src).other_account = dst

\* ---- C18 ------------------------------------------------------------------
\* The step changes no account other than those of touched, keeps the set
\* of account numbers, and keeps every account's number, holder name, type
\* and password.
OnlyTouches(touched) ==
    /\ DOMAIN accounts' = DOMAIN accounts
    /\ \A k \in DOMAIN accounts :
          /\ k \notin touched => accounts'[k] = accounts[k]
          /\ accounts'[k].account_number = accounts[k].account_number
          /\ accounts'[k].account_holder_name = accounts[k].account_holder_name
          /\ accounts'[k].account_type = accounts[k].account_type
          /\ accounts'[k].password = accounts[k].password

\* C18: deposit and withdraw change nothing but the balance and the history
\* of the account they name, transfer nothing but the balances and histories
\* of its source and target; none of the three changes an account's number,
\* holder name, type or password, nor the set of account numbers.
C18_Frame ==
    [][/\ last'.op = "deposit" =>
          \A id \in AccountNumbers, amt \in Amounts :
             deposit(id, amt) => OnlyTouches({id})
       /\ last'.op = "withdraw" =>
          \A id \in AccountNumbers, amt \in Amounts :
             withdraw(id, amt) => OnlyTouches({id})
       /\ last'.op = "transfer" =>
          \A src \in AccountNumbers, dst \in AccountNumbers, amt \in Amounts :
             transfer(src, dst, amt) => OnlyTouches({src, dst})]_vars

\* A deposit has returned while the registry holds a second account, which
\* has no transaction of its own.
C18_Witness ==
    \E id \in DOMAIN accounts, other \in DOMAIN accounts :
        /\ id # other
        /\ last.op = "deposit"
        /\ last.result = "ok"
        /\ Len(History(accounts, id)) >= 1
        /\ LastRecord(accounts, id).type = "deposit"
        /\ History(accounts, other) = << >>

\* ---- C19 ------------------------------------------------------------------
\* C19 as claimed: transfer checks no password: between existing accounts
\* and with 0 < amount <= source balance it succeeds and moves the funds
\* whatever passwords the two accounts have; it never fails with the
\* invalid-password error, and it fails only with source-not-found,
\* target-not-found (in that order, before the amount is looked at),
\* non-positive amount or insufficient funds.
C19_Original ==
    [][last'.op = "transfer" =>
       \A src \in AccountNumbers, dst \in AccountNumbers, amt \in Amounts :
          transfer(src, dst, amt)
          => /\ last'.result \in {"ok", "source_not_found", "target_not_found",
                                  "invalid_amount", "insufficient_funds"}
             /\ src \notin DOMAIN accounts => last'.result = "source_not_found"
             /\ (src \in DOMAIN accounts /\ dst \notin DOMAIN accounts)
                => last'.result = "target_not_found"
             /\ (/\ src \in DOMAIN accounts
                 /\ dst \in DOMAIN accounts
                 /\ 0 < amt
                 /\ amt <= accounts[src].balance)
                => /\ last'.result = "ok"
                   /\ accounts' = BankAccount_transfer(accounts, src, dst, amt, now)]_vars

\* C19: transfer checks no password: between existing accounts and with
\* 0 < amount <= source balance it moves the funds and saves, whatever
\* passwords the two accounts have, and succeeds unless the save raises; it
\* never fails with the invalid-password error, and it fails only with
\* source-not-found, target-not-found (in that order, before the amount is
\* looked at), non-positive amount, insufficient funds or the error of the
\* save.
C19_TransferChecksNoPassword ==
    [][last'.op = "transfer" =>
       \A src \in AccountNumbers, dst \in AccountNumbers, amt \in Amounts :
          transfer(src, dst, amt)
          => /\ last'.result \in {"ok", "source_not_found", "target_not_found",
                                  "invalid_amount", "insufficient_funds",
                                  "io_error"}
             /\ src \notin DOMAIN accounts => last'.result = "source_not_found"
             /\ (src \in DOMAIN accounts /\ dst \notin DOMAIN accounts)
                => last'.result = "target_not_found"
             /\ (/\ src \in DOMAIN accounts
                 /\ dst \in DOMAIN accounts
                 /\ 0 < amt
                 /\ amt <= accounts[src].balance)
                => /\ last'.result \in {"ok", "io_error"}
                   /\ last'.saved
                   /\ last'.result = "ok"
                      => accounts' = BankAccount_transfer(accounts, src, dst, amt, now)]_vars

\* A transfer between two accounts that both have a password has returned.
C19_Witness ==
    \E src \in DOMAIN accounts, dst \in DOMAIN accounts :
        /\ src # dst
        /\ Truthy(accounts[src].password)
        /\ Truthy(accounts[dst].password)
        /\ last.op = "transfer"
        /\ last.result = "ok"
        /\ Len(History(accounts, src)) >= 1
        /\ Len(History(accounts, dst)) >= 1
        /\ LastRecord(accounts, src).type = "transfer_out"
        /\ LastRecord(accounts, dst).type = "transfer_in"

\* ---- C20 ------------------------------------------------------------------
\* C20: in the menu loop, when choice 2 to 7 is entered with the number of
\* an existing account that has a password, the lookup asks for the
\* password, and when the answer is the stored password the operation is
\* selected and is then carried out without an invalid-password error.
C20_PasswordPrompt ==
    [][/\ (pc.at = "entered" /\ pc'.at # "entered")
          => \A entered \in Credentials :
                (/\ menu_lookup(entered)
                 /\ pc.account_number \in DOMAIN accounts
                 /\ Truthy(accounts[pc.account_number].password))
                => /\ pc'.prompted
                   /\ entered = accounts[pc.account_number].password
                      => pc'.at = "selected"
       /\ (pc.at = "selected" /\ pc'.at # "selected")
          => last'.result # "invalid_password"]_vars

====
